---- MODULE Spec2Model ----
\* A model of compress_video.py: one run of compress_video() is a sequence of
\* steps (existence check, input size, duration probe, bitrate calculation,
\* encoder invocation, report); the script may be started again on the same
\* file system.
EXTENDS Integers, Sequences, FiniteSets, TLC

\* ---------------------------------------------------------------- bounds
\* Orchestration runs (Spec)
MaxRuns == 2
MaxRunTargetMB == 2
MaxSizeMB == 3
MaxProbeDurNum == 70
\* Bitrate calculation (SpecCalc)
MaxTargetMB == 80
MaxDurNum == 600
\* Durations are the rationals num/den seconds, den in 1..MaxDurDen
MaxDurDen == 2

\* ------------------------------------------------------------- constants
audio_bitrate_kbps == 128
MB == 1024 * 1024

VARIABLES
    pc,                         \* position in compress_video
    run,                        \* number of the current run of the script
    history,                    \* outcomes of the earlier runs
    input_exists,               \* file system: os.path.exists(input_file)
    input_bytes,                \* file system: os.path.getsize(input_file)
    output_file,                \* file system: state of output_file
    output_at_start,            \* output_file when the current run started
    target_size_mb,
    current_size_bytes,         \* current_size_mb * 1024 * 1024
    probe_result,               \* how get_video_duration ended
    duration,                   \* <<num, den>>: num/den seconds
    target_video_bitrate_kbps,
    ffmpeg_runs,                \* the encoder invocations of this run
    calls,                      \* collaborators invoked in this run, in order
    printed,                    \* messages printed in this run, in order
    exit_status                 \* -1 while running, else the process status

vars == <<pc, run, history, input_exists, input_bytes, output_file,
          output_at_start, target_size_mb, current_size_bytes, probe_result,
          duration, target_video_bitrate_kbps, ffmpeg_runs, calls, printed,
          exit_status>>

\* ---------------------------------------------------------- input sets
InputSizes ==
    {b \in {t * MB + o : t \in 0..MaxSizeMB, o \in {-1, 0, 1}} : b >= 0}

Durations(maxNum) == (0..maxNum) \X (1..MaxDurDen)

ProbeOutcomes == {"ok", "exit_nonzero", "unparseable", "not_launched"}

EncoderExits == {"exit_zero", "exit_nonzero", "not_launched"}

\* ------------------------------------------------------ pure functions
\* int(x) for the rational x = num/den, den > 0: rounds toward zero
IntTrunc(num, den) ==
    IF num >= 0 THEN num \div den ELSE -((-num) \div den)

\* Faulty variant: the safety margin left out; (bits*den - 128*1000*num) / (1000*num),
\* both divided by 8
ScaledVideoBitrate_NoMargin(t, dur) ==
    <<t * 1024 * 1024 * dur[2] - ((audio_bitrate_kbps * 1000) \div 8) * dur[1],
      (1000 \div 8) * dur[1]>>

\* Faulty variant: the audio bitrate added instead of subtracted
ScaledVideoBitrate_AddAudio(t, dur) ==
    <<(t * 8 * 1024 * 32 * dur[2] + (audio_bitrate_kbps * 1000 * dur[1]) \div 32) * 19,
      ((1000 * 20) \div 32) * dur[1]>>

\* Faulty variant: the operands of the subtraction swapped
ScaledVideoBitrate_SwappedSub(t, dur) ==
    <<((audio_bitrate_kbps * 1000 * dur[1]) \div 32 - t * 8 * 1024 * 32 * dur[2]) * 19,
      ((1000 * 20) \div 32) * dur[1]>>

\* (target_size_bits / duration / 1000 - audio_bitrate_kbps) * 0.95 as the
\* exact fraction <<num, den>>, for duration = dur[1]/dur[2] > 0:
\*     (t*8*1024*1024*dur[2] - 128*1000*dur[1]) * 19
\*     ---------------------------------------------
\*                 1000 * dur[1] * 20
\* with numerator and denominator divided by 32 (32-bit integers).
ScaledVideoBitrate(t, dur) ==
    <<(t * 8 * 1024 * 32 * dur[2] - (audio_bitrate_kbps * 1000 * dur[1]) \div 32) * 19,
      ((1000 * 20) \div 32) * dur[1]>>

\* Faulty variant: // (floor division) in place of int()
TargetVideoBitrateKbps_Floor(t, dur) ==
    ScaledVideoBitrate(t, dur)[1] \div ScaledVideoBitrate(t, dur)[2]

\* Faulty variant: the result clamped to at least 1 kbps
TargetVideoBitrateKbps_Clamped(t, dur) ==
    IF IntTrunc(ScaledVideoBitrate(t, dur)[1], ScaledVideoBitrate(t, dur)[2]) < 1
    THEN 1
    ELSE IntTrunc(ScaledVideoBitrate(t, dur)[1], ScaledVideoBitrate(t, dur)[2])

TargetVideoBitrateKbps(t, dur) ==
    IntTrunc(ScaledVideoBitrate(t, dur)[1], ScaledVideoBitrate(t, dur)[2])

\* Faulty variant: < in place of <=
NoCompressionNeeded_Strict(size_bytes, t) == size_bytes < t * MB

\* Faulty variant: the comparison inverted
NoCompressionNeeded_Inverted(size_bytes, t) == size_bytes >= t * MB

\* current_size_mb <= target_size_mb, with current_size_mb = size_bytes / MB
NoCompressionNeeded(size_bytes, t) == size_bytes <= t * MB

\* -------------------------------------------------- get_video_duration
\* What get_video_duration does with an outcome of the ffprobe process:
\* "return" a float, "SystemExit" (sys.exit(1) in the handler), or an error
\* the handler does not catch.
\* Faulty variant: a failed probe falls through to a returned value
get_video_duration_Fallback(outcome) ==
    IF outcome = "not_launched" THEN "FileNotFoundError" ELSE "return"

get_video_duration(outcome) ==
    CASE outcome = "ok"           -> "return"
      [] outcome = "exit_nonzero" -> "SystemExit"
      [] outcome = "unparseable"  -> "ValueError"
      [] outcome = "not_launched" -> "FileNotFoundError"

\* subprocess.run(cmd, check=True): raises CalledProcessError on a non-zero
\* exit, FileNotFoundError when the program cannot be started
\* Faulty variant: check=True left out
EncoderRaises_NoCheck(exit) ==
    CASE exit = "exit_zero"    -> "none"
      [] exit = "exit_nonzero" -> "none"
      [] exit = "not_launched" -> "FileNotFoundError"

EncoderRaises(exit) ==
    CASE exit = "exit_zero"    -> "none"
      [] exit = "exit_nonzero" -> "CalledProcessError"
      [] exit = "not_launched" -> "FileNotFoundError"

\* ------------------------------------------------------------- states
RunStart(out) ==
    /\ pc = "check_exists"
    /\ output_at_start = out
    /\ current_size_bytes = 0
    /\ probe_result = "none"
    /\ duration = <<0, 1>>
    /\ target_video_bitrate_kbps = 0
    /\ ffmpeg_runs = <<>>
    /\ calls = <<>>
    /\ printed = <<>>
    /\ exit_status = -1

Init ==
    /\ run = 1
    /\ history = <<>>
    /\ input_exists \in BOOLEAN
    /\ input_bytes \in (IF input_exists THEN InputSizes ELSE {0})
    /\ output_file \in {"absent", "stale"}
    /\ target_size_mb \in 1..MaxRunTargetMB
    /\ RunStart(output_file)

\* Faulty variant: the existence check does not end the run
CheckInputExists_NoExit ==
    /\ pc = "check_exists"
    /\ calls' = Append(calls, "exists")
    /\ pc' = "measure_input"
    /\ UNCHANGED <<run, history, input_exists, input_bytes, output_file,
                   output_at_start, target_size_mb, current_size_bytes,
                   probe_result, duration, target_video_bitrate_kbps,
                   ffmpeg_runs, printed, exit_status>>

\* compress_video, lines 42-45
CheckInputExists ==
    /\ pc = "check_exists"
    /\ calls' = Append(calls, "exists")
    /\ IF ~input_exists
       THEN /\ printed' = Append(printed, "error_input_not_found")
            /\ exit_status' = 1
            /\ pc' = "done"
       ELSE /\ pc' = "measure_input"
            /\ UNCHANGED <<printed, exit_status>>
    /\ UNCHANGED <<run, history, input_exists, input_bytes, output_file,
                   output_at_start, target_size_mb, current_size_bytes,
                   probe_result, duration, target_video_bitrate_kbps,
                   ffmpeg_runs>>

\* compress_video, lines 47-53
MeasureInput ==
    /\ pc = "measure_input"
    /\ calls' = Append(calls, "getsize_input")
    /\ current_size_bytes' = input_bytes
    /\ IF NoCompressionNeeded(input_bytes, target_size_mb)
       THEN /\ printed' = printed \o <<"current_size", "no_compression_needed">>
            /\ exit_status' = 0
            /\ pc' = "done"
       ELSE /\ printed' = Append(printed, "current_size")
            /\ pc' = "probe"
            /\ UNCHANGED exit_status
    /\ UNCHANGED <<run, history, input_exists, input_bytes, output_file,
                   output_at_start, target_size_mb, probe_result, duration,
                   target_video_bitrate_kbps, ffmpeg_runs>>

\* compress_video, lines 55-57, with get_video_duration, lines 11-26
ProbeDuration ==
    /\ pc = "probe"
    /\ \E outcome \in ProbeOutcomes, d \in Durations(MaxProbeDurNum) :
          /\ calls' = Append(calls, "ffprobe")
          /\ probe_result' = outcome
          /\ CASE get_video_duration(outcome) = "return" ->
                    /\ duration' = d
                    /\ printed' = Append(printed, "duration")
                    /\ pc' = "bitrate"
                    /\ UNCHANGED exit_status
               [] get_video_duration(outcome) = "SystemExit" ->
                    /\ printed' = Append(printed, "error_getting_duration")
                    /\ exit_status' = 1
                    /\ pc' = "done"
                    /\ UNCHANGED duration
               [] OTHER ->
                    /\ exit_status' = 1
                    /\ pc' = "done"
                    /\ UNCHANGED <<duration, printed>>
    /\ UNCHANGED <<run, history, input_exists, input_bytes, output_file,
                   output_at_start, target_size_mb, current_size_bytes,
                   target_video_bitrate_kbps, ffmpeg_runs>>

\* compress_video, lines 59-72
CalcBitrate ==
    /\ pc = "bitrate"
    /\ IF duration[1] = 0
       THEN \* ZeroDivisionError at line 64
            /\ exit_status' = 1
            /\ pc' = "done"
            /\ UNCHANGED <<target_video_bitrate_kbps, printed>>
       ELSE /\ target_video_bitrate_kbps' =
                   TargetVideoBitrateKbps(target_size_mb, duration)
            /\ printed' = printed \o
                   <<"target_video_bitrate", "target_audio_bitrate", "compressing">>
            /\ pc' = "encode"
            /\ UNCHANGED exit_status
    /\ UNCHANGED <<run, history, input_exists, input_bytes, output_file,
                   output_at_start, target_size_mb, current_size_bytes,
                   probe_result, duration, ffmpeg_runs, calls>>

\* What a failed encoder run leaves at the output path (-y: it overwrites)
LeftByFailedEncoder(out) == {out, "partial"}

\* compress_video, lines 74-89 and 101-103
RunEncoder ==
    /\ pc = "encode"
    /\ \E exit \in EncoderExits :
       \E left \in (CASE exit = "exit_zero" -> {"encoded"}
                      [] exit = "exit_nonzero" -> LeftByFailedEncoder(output_file)
                      [] exit = "not_launched" -> {output_file}) :
          /\ calls' = Append(calls, "ffmpeg")
          /\ ffmpeg_runs' = Append(ffmpeg_runs,
                [video_bitrate |-> target_video_bitrate_kbps,
                 audio_bitrate |-> audio_bitrate_kbps,
                 exit |-> exit, left |-> left])
          /\ output_file' = left
          /\ CASE EncoderRaises(exit) = "none" ->
                    /\ pc' = "report"
                    /\ UNCHANGED <<printed, exit_status>>
               [] EncoderRaises(exit) = "CalledProcessError" ->
                    /\ printed' = Append(printed, "error_during_compression")
                    /\ exit_status' = 1
                    /\ pc' = "done"
               [] OTHER ->
                    /\ exit_status' = 1
                    /\ pc' = "done"
                    /\ UNCHANGED printed
    /\ UNCHANGED <<run, history, input_exists, input_bytes, output_at_start,
                   target_size_mb, current_size_bytes, probe_result, duration,
                   target_video_bitrate_kbps>>

\* compress_video, lines 91-99
ReportResult ==
    /\ pc = "report"
    /\ calls' = Append(calls, "getsize_output")
    /\ printed' = Append(printed, "compression_complete")
    /\ exit_status' = 0
    /\ pc' = "done"
    /\ UNCHANGED <<run, history, input_exists, input_bytes, output_file,
                   output_at_start, target_size_mb, current_size_bytes,
                   probe_result, duration, target_video_bitrate_kbps,
                   ffmpeg_runs>>

\* The script is started again (lines 105-120) with the same configuration
\* on the file system the earlier run left.
Restart ==
    /\ pc = "done"
    /\ run < MaxRuns
    /\ run' = run + 1
    /\ history' = Append(history, [exit_status |-> exit_status, calls |-> calls])
    /\ pc' = "check_exists"
    /\ output_at_start' = output_file
    /\ current_size_bytes' = 0
    /\ probe_result' = "none"
    /\ duration' = <<0, 1>>
    /\ target_video_bitrate_kbps' = 0
    /\ ffmpeg_runs' = <<>>
    /\ calls' = <<>>
    /\ printed' = <<>>
    /\ exit_status' = -1
    /\ UNCHANGED <<input_exists, input_bytes, output_file, target_size_mb>>

Next ==
    \/ CheckInputExists
    \/ MeasureInput
    \/ ProbeDuration
    \/ CalcBitrate
    \/ RunEncoder
    \/ ReportResult
    \/ Restart

Spec == Init /\ [][Next]_vars

\* ------------------------------------------- the bitrate calculation alone
\* compress_video at line 59: the input exists and is larger than the
\* target, ffprobe has returned the duration.
InitCalc ==
    /\ run = 1
    /\ history = <<>>
    /\ input_exists = TRUE
    /\ target_size_mb \in 1..MaxTargetMB
    /\ input_bytes = target_size_mb * MB + 1
    /\ output_file = "absent"
    /\ output_at_start = "absent"
    /\ pc = "bitrate"
    /\ current_size_bytes = input_bytes
    /\ probe_result = "ok"
    /\ duration \in Durations(MaxDurNum)
    /\ target_video_bitrate_kbps = 0
    /\ ffmpeg_runs = <<>>
    /\ calls = <<"exists", "getsize_input", "ffprobe">>
    /\ printed = <<"current_size", "duration">>
    /\ exit_status = -1

NextCalc == CalcBitrate

SpecCalc == InitCalc /\ [][NextCalc]_vars

\* ================================================================ claims
Invoked(c) == \E i \in 1..Len(calls) : calls[i] = c

Printed(m) == \E i \in 1..Len(printed) : printed[i] = m

ShortCircuitCalls == <<"exists", "getsize_input">>

AllCalls == <<"exists", "getsize_input", "ffprobe", "ffmpeg", "getsize_output">>

\* C1: when the input path does not exist, the run reports the error and ends
\* with status 1 having invoked only the existence check: no size
\* measurement, no duration probe, no encoder; the output path is as it was.
C1_MissingInputIsTerminal ==
    ~input_exists =>
        /\ pc \in {"check_exists", "done"}
        /\ \A i \in 1..Len(calls) : calls[i] = "exists"
        /\ ffmpeg_runs = <<>>
        /\ output_file = output_at_start
        /\ pc = "done" =>
              /\ exit_status = 1
              /\ printed = <<"error_input_not_found">>
        /\ \A i \in 1..Len(history) : history[i].exit_status = 1

C1_Witness ==
    /\ ~input_exists
    /\ pc = "done"
    /\ calls = <<"exists">>

\* C2: when the input exists and its size is at most the target (equal
\* included), the run invokes neither the probe nor the encoder, leaves the
\* output path as it was and ends with status 0; every earlier run on the
\* same file system ended the same way.
C2_ShortCircuit ==
    (input_exists /\ input_bytes <= target_size_mb * 1024 * 1024) =>
        /\ ~Invoked("ffprobe")
        /\ ~Invoked("ffmpeg")
        /\ ffmpeg_runs = <<>>
        /\ output_file = output_at_start
        /\ pc = "done" =>
              /\ exit_status = 0
              /\ calls = ShortCircuitCalls
              /\ Printed("no_compression_needed")
        /\ \A i \in 1..Len(history) :
              history[i] = [exit_status |-> 0, calls |-> ShortCircuitCalls]

C2_Witness ==
    /\ input_exists
    /\ input_bytes = target_size_mb * 1024 * 1024
    /\ run = 2
    /\ pc = "done"
    /\ exit_status = 0

\* The exact value num/den of ((target_size*8*1024*1024)/duration/1000 - 128) * 0.95
\* in a state where the bitrate has been computed
ExactNum == ScaledVideoBitrate(target_size_mb, duration)[1]

ExactDen == ScaledVideoBitrate(target_size_mb, duration)[2]

\* C3 as stated: the computed video bitrate is the floor of the exact value,
\* also when that value is negative and not an integer.
C3_Original_Floor ==
    pc = "encode" =>
        /\ target_video_bitrate_kbps * ExactDen <= ExactNum
        /\ ExactNum < (target_video_bitrate_kbps + 1) * ExactDen

\* C3 amended: the computed video bitrate is the exact value rounded toward
\* zero: its floor when the value is >= 0, its ceiling when it is negative.
C3_TruncatesTowardZero ==
    pc = "encode" =>
        IF ExactNum >= 0
        THEN /\ target_video_bitrate_kbps * ExactDen <= ExactNum
             /\ ExactNum < (target_video_bitrate_kbps + 1) * ExactDen
        ELSE /\ (target_video_bitrate_kbps - 1) * ExactDen < ExactNum
             /\ ExactNum <= target_video_bitrate_kbps * ExactDen

C3_Witness ==
    /\ pc = "encode"
    /\ ExactNum < 0
    /\ ExactNum % ExactDen # 0
    /\ target_video_bitrate_kbps < 0

\* C4 as stated: target size 80 MB and duration 600 s give 941 kbps.
C4_Original_941 ==
    (pc = "encode" /\ target_size_mb = 80 /\ duration[1] = 600 * duration[2]) =>
        target_video_bitrate_kbps = 941

\* C4 amended: target size 80 MB and duration 600 s give 940 kbps.
C4_Gives940 ==
    (pc = "encode" /\ target_size_mb = 80 /\ duration[1] = 600 * duration[2]) =>
        target_video_bitrate_kbps = 940

C4_Witness ==
    /\ pc = "encode"
    /\ target_size_mb = 80
    /\ duration = <<600, 1>>

\* C5: for a fixed duration > 0 the video bitrate never decreases when the
\* target size increases.
C5_Monotone ==
    pc = "encode" =>
        \A t1 \in 1..(target_size_mb - 1) :
            TargetVideoBitrateKbps(t1, duration) <= target_video_bitrate_kbps

C5_Witness ==
    /\ pc = "encode"
    /\ target_size_mb > 1
    /\ TargetVideoBitrateKbps(1, duration) < target_video_bitrate_kbps

\* C6: when the duration probe exits non-zero, or its output is no number,
\* the run ends with status 1 right after the probe and the encoder is never
\* invoked.
C6_ProbeFailureIsTerminal ==
    probe_result \in {"exit_nonzero", "unparseable"} =>
        /\ pc = "done"
        /\ exit_status = 1
        /\ calls = <<"exists", "getsize_input", "ffprobe">>
        /\ ffmpeg_runs = <<>>
        /\ output_file = output_at_start
        /\ probe_result = "exit_nonzero" => Printed("error_getting_duration")

C6_Witness ==
    /\ probe_result = "unparseable"
    /\ pc = "done"
    /\ exit_status = 1

\* C7: when the encoder exits non-zero, the run reports the error and ends
\* with status 1: the encoder was invoked once, the output size was neither
\* measured nor reported, and the output path holds what the encoder left.
C7_EncodeFailureIsTerminal ==
    (ffmpeg_runs # <<>> /\ ffmpeg_runs[1].exit = "exit_nonzero") =>
        /\ pc = "done"
        /\ exit_status = 1
        /\ Len(ffmpeg_runs) = 1
        /\ calls = <<"exists", "getsize_input", "ffprobe", "ffmpeg">>
        /\ printed[Len(printed)] = "error_during_compression"
        /\ ~Printed("compression_complete")
        /\ output_file = ffmpeg_runs[1].left

C7_Witness ==
    /\ ffmpeg_runs # <<>>
    /\ ffmpeg_runs[1].exit = "exit_nonzero"
    /\ ffmpeg_runs[1].left = "partial"
    /\ output_at_start = "stale"
    /\ pc = "done"

\* C8: the collaborators are invoked in the order existence check, input
\* size, duration probe, encoder, output size, each at most once; the encoder
\* only for an existing input measured larger than the target whose probe
\* returned a number; the output size only after the encoder exited with 0.
C8_StrictOrder ==
    /\ Len(calls) <= Len(AllCalls)
    /\ calls = SubSeq(AllCalls, 1, Len(calls))
    /\ Len(ffmpeg_runs) <= 1
    /\ Invoked("ffmpeg") <=> ffmpeg_runs # <<>>
    /\ Invoked("ffmpeg") =>
          /\ input_exists
          /\ current_size_bytes = input_bytes
          /\ current_size_bytes > target_size_mb * 1024 * 1024
          /\ probe_result = "ok"
          /\ duration[1] > 0
    /\ Invoked("getsize_output") => ffmpeg_runs[1].exit = "exit_zero"

C8_Witness ==
    /\ pc = "done"
    /\ calls = AllCalls
    /\ exit_status = 0

\* C9: when the probe returns a duration > 0 for which the exact value of
\* ((target_size*8*1024*1024)/duration/1000 - 128) * 0.95 is below 1, the
\* computed video bitrate is zero or negative, no error is raised, and the
\* encoder is invoked with that value.
C9_NonPositiveCase ==
    /\ probe_result = "ok"
    /\ duration[1] > 0
    /\ pc \in {"encode", "report", "done"}
    /\ 19 * (target_size_mb * 8 * 1024 * 1024 * duration[2]
               - 128 * 1000 * duration[1])
          < 20 * 1000 * duration[1]

C9_NonPositiveBitrateUnguarded ==
    C9_NonPositiveCase =>
        /\ target_video_bitrate_kbps <= 0
        /\ pc = "encode" =>
              /\ exit_status = -1
              /\ ENABLED RunEncoder
        /\ pc # "encode" =>
              /\ Len(ffmpeg_runs) = 1
              /\ ffmpeg_runs[1].video_bitrate = target_video_bitrate_kbps
              /\ ffmpeg_runs[1].video_bitrate <= 0

C9_Witness ==
    /\ C9_NonPositiveCase
    /\ pc = "report"
    /\ ffmpeg_runs[1].video_bitrate < 0

\* C10: when the total budget (target_size*8*1024*1024)/duration/1000 is at
\* least 128 kbps, the video bitrate v is >= 0 and
\* (v + 128) * 1000 * duration <= target_size*8*1024*1024; when the budget is
\* below 128 kbps that bound is exceeded.  (Both sides are divided by 8.)
C10_BudgetBound ==
    pc = "encode" =>
        IF target_size_mb * 8 * 1024 * 1024 * duration[2] >= 128 * 1000 * duration[1]
        THEN /\ target_video_bitrate_kbps >= 0
             /\ (target_video_bitrate_kbps + 128) * 125 * duration[1]
                   <= target_size_mb * 1024 * 1024 * duration[2]
        ELSE (target_video_bitrate_kbps + 128) * 125 * duration[1]
                   > target_size_mb * 1024 * 1024 * duration[2]

C10_Witness ==
    /\ pc = "encode"
    /\ target_size_mb * 8 * 1024 * 1024 * duration[2] >= 128 * 1000 * duration[1]
    /\ target_video_bitrate_kbps > 0

====
